---- MODULE Spec2Model ----
(***************************************************************************)
(* hostparser (src/src/main.rs): a rate-limited producer reads host lines  *)
(* from standard input and sends one Job per line over an spmc channel;    *)
(* `concurrency` worker tasks receive the Jobs, run the TLD extractor on   *)
(* the host and print `domain.suffix` for the hosts that resolve.          *)
(*                                                                         *)
(* The producer runs on the runtime `rt` built from -w; the workers are    *)
(* spawned with task::spawn, i.e. on the ambient #[tokio::main] runtime.   *)
(* spmc's recv() is a blocking call: a started worker keeps its thread     *)
(* until run_parser returns.                                               *)
(***************************************************************************)
EXTENDS Integers, Sequences, FiniteSets, Bags, TLC

(***************************************************************************)
(* Bounds of the model.                                                    *)
(***************************************************************************)
MaxLen == 2          \* lines the producer reads from stdin before end-of-input
MaxConc == 2         \* largest value of -c

\* Values of -r: 0 makes the limiter's constructor panic, 1 admits one Job
\* per replenish interval, 2 allows a burst of more than one Job.
Rates == {0, 1, 2}

\* Values of -w: the producer is the only task of `rt`, so every thread count
\* of 1 or more behaves like 1; 0 makes the runtime builder panic.
ThreadCounts == {0, 1}

\* Thread counts of the #[tokio::main] runtime (one per core) for c workers:
\* one thread for all of them, or a thread for each (threads beyond the
\* number of workers are never used).
Cores(c) == {1, IF c = 0 THEN 1 ELSE c}

VARIABLES
    rate,            \* -r, u32                                  (main.rs:56)
    concurrency,     \* -c, u32                                  (main.rs:64)
    w,               \* -w, usize                                (main.rs:72)
    ambientThreads,  \* threads of the #[tokio::main] runtime    (main.rs:20)
    pc_main,         \* position of main
    spawned,         \* iterations done of `for _ in 0..concurrency`
    rt,              \* the runtime built at main.rs:81
    job_rx,          \* main's receiver handle is alive          (main.rs:88)
    exitStatus,      \* exit status of the process, -1 while it runs
    pc_prod,         \* position of send_url
    lines,           \* what lines.next() has returned so far
    unread,          \* what was left in stdin when the process ended
    host,            \* send_url's `host`, the Job being admitted
    tokens,          \* permits the limiter `lim` can hand out now
    now,             \* the limiter's clock, in units of 1/rate second
    admitted,        \* clock readings at which until_ready() returned
    queue,           \* Jobs in the channel
    tx,              \* the Sender is alive (not yet dropped)
    sendFailed,      \* ids of the Jobs whose send returned Err
    wpc,             \* position of each run_parser task
    job,             \* run_parser's `job`
    recvCount,       \* how often recv() has returned each Job
    discarded,       \* ids of the Jobs a worker `continue`d on
    stdout           \* lines printed, in order

config == <<rate, concurrency, w, ambientThreads>>
mainVars == <<pc_main, spawned, rt, job_rx, exitStatus>>
limVars == <<tokens, now, admitted>>
prodVars == <<pc_prod, lines, host>>
stdinVars == <<unread>>
chanVars == <<queue, tx, sendFailed>>
workVars == <<wpc, job, recvCount, discarded, stdout>>
vars == <<config, mainVars, limVars, prodVars, stdinVars, chanVars, workVars>>

(***************************************************************************)
(* Values.                                                                 *)
(***************************************************************************)
None == <<>>
Some(x) == <<x>>
IsSome(o) == Len(o) = 1
Unwrap(o) == o[1]

\* the lines standard input can hold: two hosts that resolve, a host without
\* a suffix, a host without a domain, and the empty line
Hosts == {"http://www.example.co.uk", "sub.example.com", "localhost", "co.uk", ""}

\* lines.next() yields Some(Ok(line)) or Some(Err(e))
ReadOk(h) == <<"Ok", h>>
ReadErr == <<"Err">>
ReadResults == {ReadOk(h) : h \in Hosts} \cup {ReadErr}

\* what stdin can still hold after n results
Rests(n) == UNION {[1..k -> ReadResults] : k \in 0..(MaxLen - n)}

\* slots for run_parser tasks
Workers == 1..(MaxConc + 1)

\* faulty variant of Job: the host is left out
JobNoHost(i, h) == [id |-> i, host |-> None]

\* struct Job { host: Option<String> }; id is the position of the line in
\* the input, kept to tell the Jobs of equal lines apart
Job(i, h) == [id |-> i, host |-> Some(h)]

(***************************************************************************)
(* TldExtractor::extract on the hosts above.                               *)
(***************************************************************************)
ExtractOk(d, s) == [ok |-> TRUE, domain |-> d, suffix |-> s]
ExtractErr == [ok |-> FALSE, domain |-> None, suffix |-> None]

Extract(h) ==
    CASE h = "http://www.example.co.uk" -> ExtractOk(Some("example"), Some("co.uk"))
      [] h = "sub.example.com" -> ExtractOk(Some("example"), Some("com"))
      [] h = "localhost" -> ExtractOk(Some("localhost"), None)
      [] h = "co.uk" -> ExtractOk(None, Some("co.uk"))
      [] h = "" -> ExtractErr
      [] OTHER -> ExtractErr

\* faulty variant of RootDomain: a missing suffix is printed as an empty one
RootDomainNoSuffixCheck(h) ==
    LET extractor == Extract(h) IN
    IF ~extractor.ok THEN None
    ELSE IF ~IsSome(extractor.domain) THEN None
    ELSE IF ~IsSome(extractor.suffix)
         THEN Some(<<Unwrap(extractor.domain), ".", "">>)
    ELSE Some(<<Unwrap(extractor.domain), ".", Unwrap(extractor.suffix)>>)

\* the body of run_parser's loop after unwrap: Some(root_domain) when the
\* line is printed, None on each of the three `continue`s
RootDomain(h) ==
    LET extractor == Extract(h) IN
    IF ~extractor.ok THEN None
    ELSE IF ~IsSome(extractor.domain) THEN None
    ELSE IF ~IsSome(extractor.suffix) THEN None
    ELSE Some(<<Unwrap(extractor.domain), ".", Unwrap(extractor.suffix)>>)

(***************************************************************************)
(* Steps of the code that the actions below share.                         *)
(***************************************************************************)
\* faulty variant of LoopBound: the inclusive range 0..=concurrency
LoopBoundInclusive == concurrency + 1

\* `for _ in 0..concurrency`: the number of iterations
LoopBound == concurrency

\* Quota::per_second(rate): the burst the limiter starts with and is capped at
Burst == rate

\* one replenish interval (1/rate second) adds one permit
Replenish(t) == t + 1

\* faulty variant of TakePermit: the permit is handed out but not consumed
TakePermitFree(t) == t

\* until_ready() consumes one permit
TakePermit(t) == t - 1

\* faulty variant of Push: the message is put at the front
PushFront(q, msg) == <<msg>> \o q

\* tx.send(msg) on a connected channel
Push(q, msg) == Append(q, msg)

\* faulty variant of AfterSendErr: the error ends send_url
AfterSendErrReturn == "done"

\* `if let Err(_) = tx.send(msg) { continue; }`: where send_url goes on
AfterSendErr == "next"

\* faulty variant of RecvRest: the head is handed out but stays queued
RecvRestKeepsHead(q) == q

\* what recv() leaves in the channel when it returns the head
RecvRest(q) == Tail(q)

\* faulty variant of Disconnected: an empty queue is taken for a closed one
DisconnectedOnEmpty == queue = <<>>

\* faulty variant of Disconnected: the queue is not looked at
DisconnectedIgnoresQueue == tx = "dropped"

\* recv() returns Err(RecvError): the sender is gone and nothing is queued
Disconnected == tx = "dropped" /\ queue = <<>>

\* the whole of standard input
stdin == lines \o unread

\* faulty variant of Println: the line is written twice
PrintlnTwice(out, id, text) ==
    Append(Append(out, [id |-> id, text |-> text]), [id |-> id, text |-> text])

\* println!
Println(out, id, text) == Append(out, [id |-> id, text |-> text])

\* the receiver clone `jrx` lives from task::spawn until run_parser returns
HasRx(i) == wpc[i] \in {"spawned", "recv", "process"}

\* faulty variant of ReceiversAlive: main's own handle is not counted
ReceiversAliveClonesOnly == \E i \in Workers : wpc[i] \in {"spawned", "recv", "process"}

\* send() fails once every Receiver has been dropped
ReceiversAlive == job_rx = "alive" \/ \E i \in Workers : HasRx(i)

\* a started worker holds a thread of the ambient runtime until it returns
Busy == {i \in Workers : wpc[i] \in {"recv", "process"}}

\* faulty variant of AllJoined: ready as soon as one JoinHandle has resolved
AnyJoined == spawned = 0 \/ \E i \in 1..spawned : wpc[i] \in {"done", "panicked"}

\* `workers.collect().await` is ready once every JoinHandle has resolved
AllJoined == \A i \in 1..spawned : wpc[i] \in {"done", "panicked"}

\* the process is alive: main has neither returned to the OS nor panicked
Alive == pc_main \notin {"exited", "panicked"}

NoJob == [id |-> 0, host |-> None]

(***************************************************************************)
(* Initial state: the command line has been parsed.                        *)
(***************************************************************************)
Init ==
    /\ rate \in Rates
    /\ concurrency \in 0..MaxConc
    /\ w \in ThreadCounts
    /\ ambientThreads \in Cores(concurrency)
    /\ pc_main = "build"
    /\ spawned = 0
    /\ rt = "none"
    /\ job_rx = "none"
    /\ exitStatus = -1
    /\ pc_prod = "none"
    /\ lines = <<>>
    /\ unread = <<>>
    /\ host = None
    /\ tokens = 0
    /\ now = 0
    /\ admitted = <<>>
    /\ queue = <<>>
    /\ tx = "none"
    /\ sendFailed = {}
    /\ wpc = [i \in Workers |-> "none"]
    /\ job = [i \in Workers |-> NoJob]
    /\ recvCount = [i \in 1..MaxLen |-> 0]
    /\ discarded = {}
    /\ stdout = <<>>

(***************************************************************************)
(* main                                                                    *)
(***************************************************************************)
\* main.rs:81-88: build the runtime (worker_threads(0) panics) and the channel
MainBuild ==
    /\ pc_main = "build"
    /\ IF w = 0
       THEN /\ pc_main' = "panicked"
            /\ exitStatus' = 101
            /\ unread' \in Rests(0)
            /\ UNCHANGED <<rt, job_rx, tx>>
       ELSE /\ pc_main' = "spawn_producer"
            /\ rt' = "running"
            /\ job_rx' = "alive"
            /\ tx' = "alive"
            /\ UNCHANGED <<exitStatus, unread>>
    /\ UNCHANGED <<config, spawned, limVars, prodVars, queue, sendFailed, workVars>>

\* main.rs:90
MainSpawnProducer ==
    /\ pc_main = "spawn_producer"
    /\ pc_main' = "spawn_workers"
    /\ pc_prod' = "start"
    /\ UNCHANGED <<config, stdinVars, spawned, rt, job_rx, exitStatus, lines, host,
                   limVars, chanVars, workVars>>

\* main.rs:96-102: one iteration of the loop, or leaving it
MainSpawnWorkers ==
    /\ pc_main = "spawn_workers"
    /\ IF spawned < LoopBound
       THEN /\ spawned' = spawned + 1
            /\ wpc' = [wpc EXCEPT ![spawned + 1] = "spawned"]
            /\ UNCHANGED pc_main
       ELSE /\ pc_main' = "collect"
            /\ UNCHANGED <<spawned, wpc>>
    /\ UNCHANGED <<config, stdinVars, rt, job_rx, exitStatus, limVars, prodVars, chanVars,
                   job, recvCount, discarded, stdout>>

\* main.rs:103
MainCollect ==
    /\ pc_main = "collect"
    /\ AllJoined
    /\ pc_main' = "shutdown"
    /\ UNCHANGED <<config, stdinVars, spawned, rt, job_rx, exitStatus, limVars, prodVars,
                   chanVars, workVars>>

\* main.rs:104
MainShutdown ==
    /\ pc_main = "shutdown"
    /\ rt' = "shutdown"
    /\ pc_main' = "return"
    /\ UNCHANGED <<config, stdinVars, spawned, job_rx, exitStatus, limVars, prodVars,
                   chanVars, workVars>>

\* main.rs:106-107: Ok(()) is returned and main's locals are dropped
MainReturn ==
    /\ pc_main = "return"
    /\ job_rx' = "dropped"
    /\ pc_main' = "returned"
    /\ UNCHANGED <<config, stdinVars, spawned, rt, exitStatus, limVars, prodVars,
                   chanVars, workVars>>

\* main.rs:20-21: #[tokio::main] hands main's Ok to the OS; a producer that
\* has not seen the end of input leaves the rest of stdin unread
ProcessExit ==
    /\ pc_main = "returned"
    /\ pc_main' = "exited"
    /\ exitStatus' = 0
    /\ unread' \in (IF pc_prod = "done" THEN {<<>>} ELSE Rests(Len(lines)))
    /\ UNCHANGED <<config, spawned, rt, job_rx, limVars, prodVars, chanVars,
                   workVars>>

(***************************************************************************)
(* send_url                                                                *)
(***************************************************************************)
\* main.rs:114-117: NonZeroU32::new(0).unwrap() panics; the panic drops tx
ProducerStart ==
    /\ Alive
    /\ pc_prod = "start"
    /\ IF rate = 0
       THEN /\ pc_prod' = "panicked"
            /\ tx' = "dropped"
            /\ UNCHANGED tokens
       ELSE /\ pc_prod' = "next"
            /\ tokens' = Burst
            /\ UNCHANGED tx
    /\ UNCHANGED <<config, stdinVars, mainVars, now, admitted, lines, host, queue,
                   sendFailed, workVars>>

\* main.rs:120-121 and 130: lines.next() yields a line, a read error or the
\* end of input; line.unwrap() panics on the read error
ProducerNext ==
    /\ Alive
    /\ pc_prod = "next"
    /\ \/ /\ Len(lines) < MaxLen
          /\ \E r \in ReadResults :
               /\ lines' = Append(lines, r)
               /\ IF r = ReadErr
                  THEN /\ pc_prod' = "panicked"
                       /\ tx' = "dropped"
                       /\ UNCHANGED host
                  ELSE /\ pc_prod' = "until_ready"
                       /\ host' = Some(r[2])
                       /\ UNCHANGED tx
       \/ /\ pc_prod' = "done"
          /\ tx' = "dropped"
          /\ UNCHANGED <<lines, host>>
    /\ UNCHANGED <<config, stdinVars, mainVars, limVars, queue, sendFailed, workVars>>

\* main.rs:122
ProducerUntilReady ==
    /\ Alive
    /\ pc_prod = "until_ready"
    /\ tokens > 0
    /\ tokens' = TakePermit(tokens)
    /\ admitted' = Append(admitted, now)
    /\ pc_prod' = "send"
    /\ UNCHANGED <<config, stdinVars, mainVars, now, lines, host, chanVars, workVars>>

\* main.rs:123-128
ProducerSend ==
    /\ Alive
    /\ pc_prod = "send"
    /\ LET msg == Job(Len(lines), Unwrap(host)) IN
       IF ReceiversAlive
       THEN /\ queue' = Push(queue, msg)
            /\ UNCHANGED sendFailed
       ELSE /\ sendFailed' = sendFailed \cup {msg.id}
            /\ UNCHANGED queue
    /\ pc_prod' = IF ReceiversAlive THEN "next" ELSE AfterSendErr
    /\ host' = None
    /\ UNCHANGED <<config, stdinVars, mainVars, limVars, lines, tx, workVars>>

\* main.rs:104: after shutdown_background the task is dropped where it is
\* suspended, at lines.next().await or at until_ready().await
ProducerCancel ==
    /\ Alive
    /\ rt = "shutdown"
    /\ \/ pc_prod = "next"
       \/ pc_prod = "until_ready" /\ tokens = 0
    /\ pc_prod' = "cancelled"
    /\ tx' = "dropped"
    /\ host' = None
    /\ UNCHANGED <<config, stdinVars, mainVars, limVars, lines, queue, sendFailed, workVars>>

\* main.rs:122: the limiter reads the clock inside until_ready(); the time
\* that has passed since the last call shows there, one replenish interval
\* at a time.  Intervals that pass while the bucket is full leave the limiter
\* as it is.
Tick ==
    /\ Alive
    /\ pc_prod = "until_ready"
    /\ tokens < Burst
    /\ tokens' = Replenish(tokens)
    /\ now' = now + 1
    /\ UNCHANGED <<config, stdinVars, mainVars, admitted, prodVars, chanVars, workVars>>

(***************************************************************************)
(* run_parser                                                              *)
(***************************************************************************)
\* main.rs:98-101: the spawned task is first polled when a thread is free;
\* the runtime's queue of spawned tasks is first in, first out
WorkerStart(i) ==
    /\ Alive
    /\ wpc[i] = "spawned"
    /\ \A j \in 1..(i - 1) : wpc[j] # "spawned"
    /\ Cardinality(Busy) < ambientThreads
    /\ wpc' = [wpc EXCEPT ![i] = "recv"]
    /\ UNCHANGED <<config, stdinVars, mainVars, limVars, prodVars, chanVars, job,
                   recvCount, discarded, stdout>>

\* main.rs:134: rx.recv() blocks while the channel is empty and connected
WorkerRecv(i) ==
    /\ Alive
    /\ wpc[i] = "recv"
    /\ \/ /\ queue # <<>>
          /\ job' = [job EXCEPT ![i] = Head(queue)]
          /\ queue' = RecvRest(queue)
          /\ recvCount' = [recvCount EXCEPT ![Head(queue).id] = @ + 1]
          /\ wpc' = [wpc EXCEPT ![i] = "process"]
       \/ /\ Disconnected
          /\ wpc' = [wpc EXCEPT ![i] = "done"]
          /\ UNCHANGED <<job, queue, recvCount>>
    /\ UNCHANGED <<config, stdinVars, mainVars, limVars, prodVars, tx, sendFailed,
                   discarded, stdout>>

\* main.rs:135-158
WorkerProcess(i) ==
    /\ Alive
    /\ wpc[i] = "process"
    /\ IF ~IsSome(job[i].host)
       THEN /\ wpc' = [wpc EXCEPT ![i] = "panicked"]
            /\ UNCHANGED <<discarded, stdout>>
       ELSE LET root_domain == RootDomain(Unwrap(job[i].host)) IN
            /\ wpc' = [wpc EXCEPT ![i] = "recv"]
            /\ IF IsSome(root_domain)
               THEN /\ stdout' = Println(stdout, job[i].id, Unwrap(root_domain))
                    /\ UNCHANGED discarded
               ELSE /\ discarded' = discarded \cup {job[i].id}
                    /\ UNCHANGED stdout
    /\ job' = [job EXCEPT ![i] = NoJob]
    /\ UNCHANGED <<config, stdinVars, mainVars, limVars, prodVars, chanVars, recvCount>>

Main ==
    \/ MainBuild
    \/ MainSpawnProducer
    \/ MainSpawnWorkers
    \/ MainCollect
    \/ MainShutdown
    \/ MainReturn
    \/ ProcessExit

Producer ==
    \/ ProducerStart
    \/ ProducerNext
    \/ ProducerUntilReady
    \/ ProducerSend
    \/ ProducerCancel

Worker(i) ==
    \/ WorkerStart(i)
    \/ WorkerRecv(i)
    \/ WorkerProcess(i)

Next ==
    \/ Main
    \/ Producer
    \/ Tick
    \/ \E i \in Workers : Worker(i)

Spec == Init /\ [][Next]_vars

\* the OS and both runtimes keep running every task that can take a step,
\* and the clock keeps moving
Fairness ==
    /\ WF_vars(Main)
    /\ WF_vars(Producer)
    /\ WF_vars(Tick)
    /\ \A i \in Workers : WF_vars(Worker(i))

FairSpec == Spec /\ Fairness

(***************************************************************************)
(* Vocabulary of the properties.                                           *)
(***************************************************************************)
\* the normalizer resolves h to both a domain and a suffix
Resolves(h) ==
    /\ Extract(h).ok
    /\ IsSome(Extract(h).domain)
    /\ IsSome(Extract(h).suffix)

\* domain + "." + suffix
Composed(h) == <<Unwrap(Extract(h).domain), ".", Unwrap(Extract(h).suffix)>>

\* positions of the input lines that were read without error
OkLines(in) == {k \in 1..Len(in) : in[k] # ReadErr}

\* how many input lines resolve to the output line t
Expected(in, t) ==
    Cardinality({k \in OkLines(in) : Resolves(in[k][2]) /\ Composed(in[k][2]) = t})

\* how many times the line t has been printed
Printed(t) == Cardinality({k \in 1..Len(stdout) : stdout[k].text = t})

OutputLines == {Composed(h) : h \in {g \in Hosts : Resolves(g)}}

\* ids of the Jobs that have entered the channel
Enqueued == {queue[k].id : k \in 1..Len(queue)} \cup {k \in 1..MaxLen : recvCount[k] > 0}

\* the workers that hold a Job, between recv() and the end of the loop body
InFlight == {i \in Workers : wpc[i] = "process"}

\* ids of the Jobs whose line has been printed
Emitted == {stdout[k].id : k \in 1..Len(stdout)}

Exited == pc_main = "exited"

(***************************************************************************)
(* C1.  Once the run has completed, the multiset of output lines is the    *)
(* multiset of domain + "." + suffix over the input lines whose host       *)
(* resolves.  Stated for the configurations that start a worker and have a *)
(* non-zero rate.                                                          *)
(***************************************************************************)
C1_OutputIsResolvedInput ==
    (Exited /\ concurrency >= 1 /\ rate >= 1) =>
        /\ \A k \in 1..Len(stdout) : stdout[k].text \in OutputLines
        /\ \A t \in OutputLines : Printed(t) = Expected(stdin, t)

(***************************************************************************)
(* C2.  recv() returns each enqueued Job at most once: never to two        *)
(* workers and never twice to one.                                         *)
(***************************************************************************)
C2_DeliveredAtMostOnce ==
    /\ \A k \in 1..MaxLen : recvCount[k] <= 1
    /\ \A i, j \in InFlight : i # j => job[i].id # job[j].id
    /\ \A i \in InFlight : \A k \in 1..Len(queue) : queue[k].id # job[i].id

\* two workers hold a Job each at the same time
C2_Witness ==
    /\ Cardinality(InFlight) = 2
    /\ \A k \in 1..2 : recvCount[k] = 1

(***************************************************************************)
(* C3.  Every Job the producer has enqueued is eventually received by a    *)
(* worker and then printed or discarded, and no Job is in the channel or   *)
(* in a worker's hands when the process ends.                              *)
(***************************************************************************)
Settled(k) == recvCount[k] > 0 /\ (k \in Emitted \/ k \in discarded)

C3_EveryJobSettled ==
    /\ \A k \in 1..MaxLen : (k \in Enqueued) ~> Settled(k)
    /\ [](Exited => (queue = <<>> /\ InFlight = {}))

\* C3 as amended: the same, when at least one worker is configured
C3_EveryJobSettledWithWorkers ==
    /\ \A k \in 1..MaxLen : (concurrency >= 1 /\ k \in Enqueued) ~> Settled(k)
    /\ [](Exited /\ concurrency >= 1 => (queue = <<>> /\ InFlight = {}))

\* the process has ended after one Job was printed and another discarded
C3_Witness ==
    /\ Exited
    /\ concurrency >= 1
    /\ Emitted # {}
    /\ discarded # {}

(***************************************************************************)
(* C4.  When main shuts the runtime down (main.rs:104) the producer has    *)
(* dropped the sender, the channel is empty and no worker holds a Job.     *)
(***************************************************************************)
Drained == tx = "dropped" /\ queue = <<>> /\ InFlight = {}

C4_ShutdownAfterDrain == pc_main = "shutdown" => Drained

\* C4 as amended: the same, when at least one worker is configured
C4_ShutdownAfterDrainWithWorkers ==
    (pc_main = "shutdown" /\ concurrency >= 1) => Drained

\* main is about to shut down after two workers have handled the two Jobs
C4_Witness ==
    /\ pc_main = "shutdown"
    /\ concurrency = 2
    /\ \A k \in 1..2 : recvCount[k] = 1

(***************************************************************************)
(* C5.  The pipeline terminates: the producer reaches the end of input and *)
(* closes the channel, every worker exits, main's wait completes and the   *)
(* process ends with status 0; no line is printed for an empty input.      *)
(* Stated for the configurations that build the runtime, start a worker    *)
(* and have a non-zero rate.                                               *)
(***************************************************************************)
C5_Usable == w >= 1 /\ concurrency >= 1 /\ rate >= 1

C5_Terminates ==
    /\ C5_Usable ~> (Exited /\ exitStatus = 0)
    /\ [](Exited /\ C5_Usable =>
             /\ pc_prod = "done"
             /\ tx = "dropped"
             /\ \A i \in 1..concurrency : wpc[i] = "done")
    /\ [](Exited /\ stdin = <<>> => stdout = <<>>)

(***************************************************************************)
(* C6.  A read error is skipped: the producer goes on to the next line,    *)
(* it does not terminate and the channel stays open.                       *)
(***************************************************************************)
ReadsError == Len(lines') = Len(lines) + 1 /\ lines'[Len(lines')] = ReadErr

C6_ReadErrorSkipped ==
    [][ReadsError => (pc_prod' = "next" /\ tx' = "alive")]_vars

(***************************************************************************)
(* C7.  A Job whose normalization fails (extract error, no domain or no    *)
(* suffix) prints nothing and leaves its worker running: the worker goes   *)
(* back to recv(), the Job is not re-enqueued and no other worker changes. *)
(***************************************************************************)
FailsNow(i) == wpc[i] = "process" /\ IsSome(job[i].host) /\ ~Resolves(Unwrap(job[i].host))

C7_FailureStep(i) ==
    (FailsNow(i) /\ wpc'[i] # wpc[i]) =>
        /\ stdout' = stdout
        /\ wpc'[i] = "recv"
        /\ queue' = queue
        /\ job[i].id \in discarded'
        /\ \A j \in Workers \ {i} : wpc'[j] = wpc[j] /\ job'[j] = job[j]

C7_FailureIsSilent ==
    /\ [][\A i \in Workers : C7_FailureStep(i)]_vars
    /\ [](\A k \in Emitted : Resolves(lines[k][2]))
    /\ [](\A k \in discarded : recvCount[k] = 1 /\ k \notin Emitted)

\* one worker discarded the first Job and then printed the second
C7_Witness ==
    /\ concurrency = 1
    /\ discarded = {1}
    /\ Emitted = {2}

(***************************************************************************)
(* C8.  One permit is taken before each Job is enqueued, so the Jobs       *)
(* admitted in any window of T seconds number at most rate*T + rate; only  *)
(* the producer and the clock change the limiter.  The clock counts        *)
(* replenish intervals, rate of them to the second.                        *)
(***************************************************************************)
C8_Window ==
    \A i, j \in 1..Len(admitted) :
        i <= j => (j - i + 1) <= (admitted[j] - admitted[i]) + rate

C8_PermitPerJob ==
    Len(admitted) =
        Cardinality(Enqueued \cup sendFailed) + (IF pc_prod = "send" THEN 1 ELSE 0)

C8_AdmissionBound ==
    /\ [](C8_Window /\ C8_PermitPerJob)
    /\ [][(wpc' # wpc \/ pc_main' # pc_main) => UNCHANGED limVars]_vars

\* with rate 1 the second Job was admitted one interval after the first
C8_Witness ==
    /\ rate = 1
    /\ Len(admitted) = 2
    /\ admitted[2] = admitted[1] + 1

(***************************************************************************)
(* C9.  At most `concurrency` Jobs are between recv() and the end of the   *)
(* loop body; exactly `concurrency` workers are spawned, each holds one    *)
(* Job at a time and a worker that has returned never runs again.          *)
(***************************************************************************)
C9_State ==
    /\ Cardinality(InFlight) <= concurrency
    /\ {i \in Workers : wpc[i] # "none"} = 1..spawned
    /\ spawned <= concurrency
    /\ pc_main \in {"collect", "shutdown", "return", "returned", "exited"}
           => spawned = concurrency
    /\ \A i \in Workers : (job[i] # NoJob) <=> (i \in InFlight)

C9_Step ==
    /\ spawned' >= spawned
    /\ \A i \in Workers :
           wpc[i] \notin {"none", "spawned"} => wpc'[i] \notin {"none", "spawned"}
    /\ \A i \in Workers : wpc[i] = "done" => wpc'[i] = "done"

C9_BoundedWorkers == []C9_State /\ [][C9_Step]_vars

\* every configured worker holds a Job
C9_Witness ==
    /\ concurrency = 2
    /\ Cardinality(InFlight) = 2

SendFails == pc_prod = "send" /\ pc_prod' # "send" /\ ~ReceiversAlive

C11_SendFailureSkipsJob ==
    /\ [][SendFails => (pc_prod' = "next" /\ queue' = queue /\ tx' = tx)]_vars
    /\ [](\A k \in sendFailed : k \notin Enqueued /\ k \notin Emitted /\ recvCount[k] = 0)

\* a send has failed and the producer has admitted the line after it
C11_Witness ==
    /\ 1 \in sendFailed
    /\ pc_prod = "send"
    /\ Len(lines) = 2

(***************************************************************************)
(* C12.  A worker ends only on recv()'s Err, which recv() returns only     *)
(* when the sender is dropped and the channel is empty: whenever a worker  *)
(* has ended the channel is closed and no Job is left in it.               *)
(***************************************************************************)
Ended(i) == wpc[i] \in {"done", "panicked"}

C12_Step ==
    \A i \in Workers :
        (~Ended(i) /\ Ended(i)') =>
            /\ wpc[i] = "recv"
            /\ wpc'[i] = "done"
            /\ tx = "dropped"
            /\ queue = <<>>

C12_State == (\E i \in Workers : Ended(i)) => (tx = "dropped" /\ queue = <<>>)

C12_ExitOnlyWhenDrained == []C12_State /\ [][C12_Step]_vars

\* one worker has ended while the other still handles a Job it received
C12_Witness ==
    /\ wpc[1] = "done"
    /\ wpc[2] = "process"
    /\ recvCount[1] = 1

(***************************************************************************)
(* C13.  The producer closes the channel only at the end of input:         *)
(* whenever the channel is closed the producer has seen the end of input   *)
(* and no line of stdin is left unread, for every rate and every outcome   *)
(* of reading a line.                                                      *)
(***************************************************************************)
C13_ClosedOnlyAtEndOfInput ==
    tx = "dropped" => (pc_prod = "done" /\ unread = <<>>)

(***************************************************************************)
(* C14.  Only non-empty lines take a permit and enter the channel: no Job  *)
(* in the channel or held by a worker carries the empty line, and the      *)
(* number of permits taken never exceeds the number of non-empty lines     *)
(* read.                                                                   *)
(***************************************************************************)
NonEmptyRead == {k \in OkLines(lines) : lines[k][2] # ""}

C14_EmptyLineNotEnqueued ==
    /\ \A k \in 1..Len(queue) : queue[k].host # Some("")
    /\ \A i \in InFlight : job[i].host # Some("")
    /\ Len(admitted) <= Cardinality(NonEmptyRead)

(***************************************************************************)
(* C15.  Workers and producer share the pool of w threads built from -w:   *)
(* the workers never occupy more than w threads, and a worker waiting on   *)
(* an empty, connected channel occupies no thread.                        *)
(***************************************************************************)
Waiting(i) == wpc[i] = "recv" /\ queue = <<>> /\ tx = "alive"

C15_WorkersShareRtPool ==
    /\ Cardinality(Busy) <= w
    /\ \A i \in Workers : Waiting(i) => i \notin Busy

(***************************************************************************)
(* C16.  Every Job in the channel or held by a worker has its host set,    *)
(* and no worker ever panics on job.host.unwrap().                         *)
(***************************************************************************)
C16_HostAlwaysSet ==
    /\ \A k \in 1..Len(queue) : IsSome(queue[k].host)
    /\ \A i \in InFlight : IsSome(job[i].host)
    /\ \A i \in Workers : wpc[i] # "panicked"

C16_Witness ==
    /\ queue # <<>>
    /\ \E i \in InFlight : job[i].host = Some("sub.example.com")

(***************************************************************************)
(* C17.  From the creation of the channel until main returns, a Receiver   *)
(* is alive: main still holds job_rx, so every send of the producer        *)
(* succeeds and no Job has been dropped through the send-failure path.     *)
(***************************************************************************)
MainHoldsChannel ==
    pc_main \in {"spawn_producer", "spawn_workers", "collect", "shutdown", "return"}

C17_SendOk == (pc_prod = "send" /\ pc_prod' # "send") => queue' = Push(queue, Job(Len(lines), Unwrap(host)))

C17_SendSucceedsBeforeReturn ==
    /\ [](MainHoldsChannel => (job_rx = "alive" /\ ReceiversAlive /\ sendFailed = {}))
    /\ [][MainHoldsChannel => C17_SendOk]_vars

\* the producer sends while no worker was ever spawned and main is about to
\* return: only main's own handle keeps the channel connected
C17_Witness ==
    /\ pc_main = "return"
    /\ concurrency = 0
    /\ queue # <<>>
    /\ pc_prod = "send"

(***************************************************************************)
(* C18.  The channel is first in, first out, a worker holds one Job at a   *)
(* time and finishes it before receiving the next; so with concurrency = 1 *)
(* the output is, line by line and in input order, the composed name of    *)
(* every line read whose host resolves.                                    *)
(***************************************************************************)
RECURSIVE Normalized(_)
Normalized(in) ==
    IF in = <<>> THEN <<>>
    ELSE LET l == Head(in)
         IN  (IF l # ReadErr /\ Resolves(l[2]) THEN <<Composed(l[2])>> ELSE <<>>)
             \o Normalized(Tail(in))

Texts(out) == [k \in 1..Len(out) |-> out[k].text]

IsPrefix(s, t) == Len(s) <= Len(t) /\ SubSeq(t, 1, Len(s)) = s

NoReadError == \A k \in 1..Len(lines) : lines[k] # ReadErr

\* Jobs wait in the channel in the order they were sent
C18_QueueInOrder ==
    /\ \A k \in 1..(Len(queue) - 1) : queue[k].id < queue[k + 1].id
    /\ \A k \in 1..Len(queue) : \A m \in 1..MaxLen : recvCount[m] > 0 => m < queue[k].id

\* recv() hands out the oldest Job, to a worker that holds none; a worker
\* that finishes a Job prints nothing but the line of that Job
C18_Step ==
    \A i \in Workers :
        /\ (wpc[i] = "recv" /\ wpc'[i] = "process") =>
               /\ job[i] = NoJob
               /\ job'[i] = Head(queue)
               /\ queue' = Tail(queue)
        /\ (wpc[i] = "process" /\ wpc'[i] # "process") =>
               /\ job'[i] = NoJob
               /\ \/ stdout' = stdout
                  \/ /\ Len(stdout') = Len(stdout) + 1
                     /\ SubSeq(stdout', 1, Len(stdout)) = stdout
                     /\ stdout'[Len(stdout')].id = job[i].id

C18_SingleWorker ==
    concurrency = 1 =>
        /\ IsPrefix(Texts(stdout), Normalized(lines))
        /\ \A k \in 1..(Len(stdout) - 1) : stdout[k].id < stdout[k + 1].id
        /\ Exited => Texts(stdout) = Normalized(lines)
        /\ (Exited /\ rate >= 1 /\ NoReadError) => Texts(stdout) = Normalized(stdin)

====
